---- MODULE Spec2Model ----
(***************************************************************************)
(* The colour-threshold utility of ColorThreshUtil/ColorThreshUtil.py      *)
(* (and its near-duplicate ColorThreshUtil/colorthresh.py): one            *)
(* ColorThreshold object, the HighGUI widgets it creates (six trackbars,   *)
(* a clickable button, two image windows) and the control flow of start(). *)
(*                                                                         *)
(* An image is a sequence of pixels.  A 3-channel pixel is <<c0, c1, c2>>  *)
(* (BGR order for a source frame), a 1-channel pixel is an integer, and    *)
(* None (no image) is the empty sequence.  All channel values are 8-bit.   *)
(***************************************************************************)
EXTENDS Integers, Sequences, FiniteSets, TLC

----------------------------------------------------------------------------
(* Bounds of the model. *)

\* Control events (trackbar moves and mouse events) handled in one session.
MaxEvents == 2

\* Mouse events handled in one session of the click-only specification.
MaxClicks == 10

\* Frames a video file or camera delivers before a read fails.
MaxFrames == 2

----------------------------------------------------------------------------
(* Constants of ColorThreshold.__init__. *)

PIXEL_MIN == 0
PIXEL_MAX == 255

\* The colour spaces with GRAY and HSV in each other's place.
ColorSpacesReordered ==
    <<"BGR", "HSV", "GRAY", "Lab", "Luv", "YCrCb", "YUV">>

\* list(CV_COLOR_CODES.keys()); Python indexes it from 0, TLA+ from 1.
COLOR_SPACES == <<"BGR", "GRAY", "HSV", "Lab", "Luv", "YCrCb", "YUV">>

\* The OrderedDict CV_COLOR_CODES as a function; "None" is Python's None.
CV_COLOR_CODES ==
    [name \in {COLOR_SPACES[i] : i \in 1..Len(COLOR_SPACES)} |->
        CASE name = "BGR"   -> "None"
          [] name = "GRAY"  -> "COLOR_BGR2GRAY"
          [] name = "HSV"   -> "COLOR_BGR2HSV"
          [] name = "Lab"   -> "COLOR_BGR2Lab"
          [] name = "Luv"   -> "COLOR_BGR2Luv"
          [] name = "YCrCb" -> "COLOR_BGR2YCrCb"
          [] name = "YUV"   -> "COLOR_BGR2YUV"]

\* list[i] as Python indexes a list: from 0, a negative index counting from
\* the end, IndexError outside -len..len-1.
ListAt(list, i) ==
    IF 0 <= i /\ i < Len(list) THEN list[i + 1]
    ELSE IF 0 - Len(list) <= i /\ i < 0 THEN list[Len(list) + i + 1]
    ELSE "IndexError"

\* The six trackbars, in the order __init__ creates them.
TRACKBARS ==
    <<"Ch0 Low", "Ch0 High", "Ch1 Low", "Ch1 High", "Ch2 Low", "Ch2 High">>

TrackbarNames == {TRACKBARS[i] : i \in 1..Len(TRACKBARS)}

\* The mouse events HighGUI delivers to onMouse (a representative set).
MouseEvents ==
    {"EVENT_LBUTTONDOWN", "EVENT_RBUTTONDOWN", "EVENT_MOUSEMOVE"}

None == <<>>

----------------------------------------------------------------------------
(* The command line and __main__. An option of the command line holds the    *)
(* values given for it: none, or one. A value that may be Python's None is   *)
(* None or Some(v).                                                          *)

Some(v) == <<v>>

\* int(s) as argparse applies it to the value of --cam: the integer, or no
\* result where Python raises ValueError.
int(s) ==
    CASE s = "0" -> Some(0)
      [] s = "1" -> Some(1)
      [] OTHER   -> None

\* ap.parse_args(): --image and --video default to None, --cam is converted
\* by int and defaults to 0; a value of --cam that int rejects makes
\* argparse print its usage and exit with status 2.
parse_args(line) ==
    [exit  |-> line.cam # None /\ int(line.cam[1]) = None,
     image |-> line.image,
     video |-> line.video,
     cam   |-> IF line.cam = None THEN 0
               ELSE IF int(line.cam[1]) = None THEN 0
               ELSE int(line.cam[1])[1]]

\* __main__: the mode and the source the object is constructed with, unless
\* argparse exits.
main(line) ==
    LET args == parse_args(line)
    IN  IF args.exit
        THEN [exit |-> TRUE, mode |-> "none", source |-> None]
        ELSE IF args.image # None
        THEN [exit |-> FALSE, mode |-> "image", source |-> args.image]
        ELSE IF args.video # None
        THEN [exit |-> FALSE, mode |-> "video", source |-> args.video]
        ELSE [exit |-> FALSE, mode |-> "cam", source |-> Some(args.cam)]

\* The command lines of the usage notes: one for each mode.
Usage(m) ==
    CASE m = "image" -> [image |-> Some("myImageFile.png"), video |-> None,
                         cam |-> None]
      [] m = "video" -> [image |-> None, video |-> Some("myVideoFile.mp4"),
                         cam |-> None]
      [] m = "cam"   -> [image |-> None, video |-> None, cam |-> None]

\* The values given for --cam: none, a camera index, something else.
CamValues == {None, Some("1"), Some("x")}

\* The command lines of the model: each option given or not.
CommandLines ==
    { [image |-> i, video |-> v, cam |-> c] :
        i \in {None, Some("myImageFile.png")},
        v \in {None, Some("myVideoFile.mp4")},
        c \in CamValues }

----------------------------------------------------------------------------
(* The inputs of the model. *)

\* Positions a user asks of a slider: inside the range, at its lower end,
\* and past its upper end (a drag beyond the end of the bar).
SliderRequests == {0, 100, 200, 256}

Uniform(p) == <<p, p>>

\* The frames a source can deliver: uniform frames whose channel values sit
\* on, between and at the ends of the slider values, and a mixed frame.
Frames ==
    { Uniform(<<150, 0, 255>>), Uniform(<<200, 150, 150>>),
      << <<100, 150, 150>>, <<150, 0, 255>> >> }

----------------------------------------------------------------------------
(* Arithmetic of 8-bit images. *)

Max2(a, b) == IF a >= b THEN a ELSE b
Min2(a, b) == IF a <= b THEN a ELSE b

\* cv::saturate_cast<uchar>
Saturate(x) == Max2(0, Min2(255, x))

\* Rounded quotient num / den, den > 0.
RoundDiv(num, den) == (2 * num + den) \div (2 * den)

RECURSIVE BitAnd(_, _, _)
BitAnd(a, b, bits) ==
    IF bits = 0 THEN 0
    ELSE (IF a % 2 = 1 /\ b % 2 = 1 THEN 1 ELSE 0)
         + 2 * BitAnd(a \div 2, b \div 2, bits - 1)

\* cv2.bitwise_and of two single-channel 8-bit images of one size.
bitwise_and(src1, src2) ==
    [i \in 1..Len(src1) |-> BitAnd(src1[i], src2[i], 8)]

\* cv2.split: the three planes of a 3-channel image.
split(m) == [c \in 1..3 |-> [i \in 1..Len(m) |-> m[i][c]]]

----------------------------------------------------------------------------
(* cv2.cvtColor, per pixel p = <<b, g, r>>, as OpenCV computes the 8-bit     *)
(* conversions: the fixed-point luma and chroma of its integer code path,    *)
(* hue in 0..179, and Lab / Luv tabulated for a set of pixels that holds    *)
(* those of Frames (rounded from the formulas of the cvtColor documentation). *)

BGR2GRAY(p) == (p[3] * 4899 + p[2] * 9617 + p[1] * 1868 + 8192) \div 16384

Chroma(d, coeff) == Saturate((d * coeff + 128 * 16384 + 8192) \div 16384)

BGR2YCrCb(p) ==
    LET y == BGR2GRAY(p)
    IN  <<y, Chroma(p[3] - y, 11682), Chroma(p[1] - y, 9241)>>

BGR2YUV(p) ==
    LET y == BGR2GRAY(p)
    IN  <<y, Chroma(p[1] - y, 8061), Chroma(p[3] - y, 14369)>>

BGR2HSV(p) ==
    LET b == p[1]
        g == p[2]
        r == p[3]
        v == Max2(r, Max2(g, b))
        diff == v - Min2(r, Min2(g, b))
        s == IF v = 0 THEN 0 ELSE RoundDiv(255 * diff, v)
        h0 == IF diff = 0 THEN 0
              ELSE IF v = r THEN RoundDiv(30 * (g - b), diff)
              ELSE IF v = g THEN 60 + RoundDiv(30 * (b - r), diff)
              ELSE 120 + RoundDiv(30 * (r - g), diff)
        h == IF h0 < 0 THEN h0 + 180 ELSE h0
    IN  <<h, s, v>>

BGR2Lab(p) ==
    CASE p = <<150, 0, 255>>   -> <<142, 214, 120>>
      [] p = <<150, 255, 0>>   -> <<226, 55, 164>>
      [] p = <<150, 100, 200>> -> <<142, 174, 119>>
      [] p = <<200, 150, 150>> -> <<163, 139, 102>>
      [] p = <<100, 150, 150>> -> <<155, 120, 154>>
      [] p = <<150, 150, 150>> -> <<158, 128, 128>>
      [] p = <<0, 150, 255>>   -> <<183, 160, 205>>
      [] p = <<255, 200, 100>> -> <<196, 115, 92>>
      [] p = <<100, 100, 100>> -> <<108, 128, 128>>

BGR2Luv(p) ==
    CASE p = <<150, 0, 255>>   -> <<142, 191, 109>>
      [] p = <<150, 255, 0>>   -> <<226, 40, 197>>
      [] p = <<150, 100, 200>> -> <<142, 140, 116>>
      [] p = <<200, 150, 150>> -> <<163, 94, 96>>
      [] p = <<100, 150, 150>> -> <<155, 98, 170>>
      [] p = <<150, 150, 150>> -> <<158, 96, 136>>
      [] p = <<0, 150, 255>>   -> <<183, 159, 203>>
      [] p = <<255, 200, 100>> -> <<196, 67, 82>>
      [] p = <<100, 100, 100>> -> <<108, 96, 136>>

cvtColor(src, code) ==
    [i \in 1..Len(src) |->
        CASE code = "COLOR_BGR2GRAY"  -> BGR2GRAY(src[i])
          [] code = "COLOR_BGR2HSV"   -> BGR2HSV(src[i])
          [] code = "COLOR_BGR2Lab"   -> BGR2Lab(src[i])
          [] code = "COLOR_BGR2Luv"   -> BGR2Luv(src[i])
          [] code = "COLOR_BGR2YCrCb" -> BGR2YCrCb(src[i])
          [] code = "COLOR_BGR2YUV"   -> BGR2YUV(src[i])]

----------------------------------------------------------------------------
(* cv2.inRange on a single-channel image with scalar bounds: 255 where      *)
(* lowerb <= src <= upperb (both ends included), 0 elsewhere.               *)

\* The range test with both ends left out.
inRangeStrict(src, lowerb, upperb) ==
    [i \in 1..Len(src) |->
        IF lowerb < src[i] /\ src[i] < upperb THEN 255 ELSE 0]

\* The range test with the bounds put in order first.
inRangeSwapped(src, lowerb, upperb) ==
    [i \in 1..Len(src) |->
        IF Min2(lowerb, upperb) <= src[i] /\ src[i] <= Max2(lowerb, upperb)
        THEN 255 ELSE 0]

\* cv2.inRange.
inRange(src, lowerb, upperb) ==
    [i \in 1..Len(src) |->
        IF lowerb <= src[i] /\ src[i] <= upperb THEN 255 ELSE 0]

----------------------------------------------------------------------------
(* The state: the fields of the ColorThreshold object, the widgets of the   *)
(* three windows, and the position of start().                              *)

VARIABLES
    mode,           \* self.mode: "image", "video" or "cam"
    pc,             \* where start() is: "start" (constructed, start() not yet
                    \* called), "waitKey0" (image mode, in cv2.waitKey(0)),
                    \* "read" (top of the while loop), "waitKey1" (in
                    \* cv2.waitKey(1) after a successful read), "done"
                    \* (start() returned), "raised" (start() raised)
    cap,            \* frames the opened VideoCapture has delivered
    img,            \* self.img
    colorSpaceIdx,  \* self.colorSpaceIdx
    ch0LowVal, ch0HighVal, ch1LowVal, ch1HighVal, ch2LowVal, ch2HighVal,
    trackbarPos,    \* the position of each trackbar of the Controls window
    ctrlWin,        \* the text on the button shown in the Controls window
    imWin,          \* the image shown in the Original window
    threshWin,      \* the image shown in the Thresholded window
    lastThresh,     \* the last call of thresholdImage: what it read and the
                    \* per-channel planes it computed
    lastEvent,      \* the last control event delivered by HighGUI
    nEvents,        \* control events delivered so far
    clickRun,       \* the current run of button clicks in one direction
    mutatedSinceRead, \* in the capture loop: a control event has changed a
                    \* bound or the colour space since the last cap.read()
    argv,           \* the command line: the values given for each option
    source,         \* self.source: the path or camera index start() opens
    other,          \* the ColorThreshold object of colorthresh.py run beside
                    \* this one on the same inputs, in the sessions that
                    \* compare the two files; None in the others
    gvp             \* the program get_video_pixel.py: its place, its
                    \* globals and what its three windows show; None in
                    \* the sessions of ColorThreshold

bounds == <<ch0LowVal, ch0HighVal, ch1LowVal, ch1HighVal, ch2LowVal, ch2HighVal>>

vars == <<mode, pc, cap, img, colorSpaceIdx,
          ch0LowVal, ch0HighVal, ch1LowVal, ch1HighVal, ch2LowVal, ch2HighVal,
          trackbarPos, ctrlWin, imWin, threshWin, lastThresh, lastEvent,
          nEvents, clickRun, mutatedSinceRead, argv, source, other, gvp>>

\* An object constructed with the sliders and the button elsewhere: low
\* bounds in the middle of the range and the button on the second space.
InitElsewhere ==
    /\ mode \in {"image", "video", "cam"}
    /\ pc = "start"
    /\ cap = 0
    /\ img = None
    /\ colorSpaceIdx = 1
    /\ ch0LowVal = 100
    /\ ch0HighVal = PIXEL_MAX
    /\ ch1LowVal = 100
    /\ ch1HighVal = PIXEL_MAX
    /\ ch2LowVal = 100
    /\ ch2HighVal = PIXEL_MAX
    /\ trackbarPos = [n \in TrackbarNames |->
                        IF n \in {"Ch0 Low", "Ch1 Low", "Ch2 Low"}
                        THEN 100 ELSE PIXEL_MAX]
    /\ ctrlWin = ListAt(COLOR_SPACES, 1)
    /\ imWin = None
    /\ threshWin = None
    /\ lastThresh = [called |-> FALSE, img |-> None, colorSpaceIdx |-> 0,
                     bounds |-> <<0, 0, 0, 0, 0, 0>>, channels |-> <<>>]
    /\ lastEvent = [kind |-> "none", name |-> "", val |-> 0]
    /\ nEvents = 0
    /\ clickRun = [start |-> 0, dir |-> 0, len |-> 0]
    /\ mutatedSinceRead = FALSE
    /\ argv = Usage(mode)
    /\ source = main(argv).source
    /\ other = None
    /\ gvp = None

\* ColorThreshold.__init__: the object and its widgets once constructed.
Constructed ==
    /\ mode \in {"image", "video", "cam"}
    /\ pc = "start"
    /\ cap = 0
    /\ img = None
    /\ colorSpaceIdx = 0
    /\ ch0LowVal = PIXEL_MIN
    /\ ch0HighVal = PIXEL_MAX
    /\ ch1LowVal = PIXEL_MIN
    /\ ch1HighVal = PIXEL_MAX
    /\ ch2LowVal = PIXEL_MIN
    /\ ch2HighVal = PIXEL_MAX
    /\ trackbarPos = [n \in TrackbarNames |->
                        IF n \in {"Ch0 Low", "Ch1 Low", "Ch2 Low"}
                        THEN PIXEL_MIN ELSE PIXEL_MAX]
    /\ ctrlWin = ListAt(COLOR_SPACES, 0)
    /\ imWin = None
    /\ threshWin = None
    /\ lastThresh = [called |-> FALSE, img |-> None, colorSpaceIdx |-> 0,
                     bounds |-> <<0, 0, 0, 0, 0, 0>>, channels |-> <<>>]
    /\ lastEvent = [kind |-> "none", name |-> "", val |-> 0]
    /\ nEvents = 0
    /\ clickRun = [start |-> 0, dir |-> 0, len |-> 0]
    /\ mutatedSinceRead = FALSE
    /\ argv = Usage(mode)
    /\ source = main(argv).source

\* The object of ColorThreshUtil.py constructed, and run on its own.
Init ==
    /\ Constructed
    /\ other = None
    /\ gvp = None

----------------------------------------------------------------------------
(* thresholdImage *)

\* thresholdImage without the third plane in the intersection.
ThresholdTwoChannels(image, idx, b) ==
    LET colorSpaceName == ListAt(COLOR_SPACES, idx)
        converted == IF colorSpaceName # "BGR"
                     THEN cvtColor(image, CV_COLOR_CODES[colorSpaceName])
                     ELSE image
        planes == split(converted)
        channels == <<inRange(planes[1], b[1], b[2]),
                      inRange(planes[2], b[3], b[4]),
                      inRange(planes[3], b[5], b[6])>>
    IN  IF colorSpaceName = "GRAY"
        THEN [im |-> converted, channels |-> <<>>,
              thresh |-> inRange(converted, b[1], b[2])]
        ELSE [im |-> converted, channels |-> channels,
              thresh |-> bitwise_and(channels[1], channels[2])]

\* thresholdImage with all three bound pairs applied to the grey image.
ThresholdGrayAllSliders(image, idx, b) ==
    LET colorSpaceName == ListAt(COLOR_SPACES, idx)
        converted == IF colorSpaceName # "BGR"
                     THEN cvtColor(image, CV_COLOR_CODES[colorSpaceName])
                     ELSE image
        gray == inRange(converted, b[1], b[2])
        planes == split(converted)
        channels == <<inRange(planes[1], b[1], b[2]),
                      inRange(planes[2], b[3], b[4]),
                      inRange(planes[3], b[5], b[6])>>
    IN  IF colorSpaceName = "GRAY"
        THEN [im |-> converted, channels |-> <<>>,
              thresh |-> bitwise_and(
                  bitwise_and(gray, inRange(converted, b[3], b[4])),
                  inRange(converted, b[5], b[6]))]
        ELSE [im |-> converted, channels |-> channels,
              thresh |-> bitwise_and(
                  bitwise_and(channels[1], channels[2]), channels[3])]

\* thresholdImage showing the frame of the identity space with its channels
\* in the order R, G, B.
ThresholdReordersBGR(image, idx, b) ==
    LET colorSpaceName == ListAt(COLOR_SPACES, idx)
        converted == IF colorSpaceName # "BGR"
                     THEN cvtColor(image, CV_COLOR_CODES[colorSpaceName])
                     ELSE [i \in 1..Len(image) |->
                              <<image[i][3], image[i][2], image[i][1]>>]
        planes == split(converted)
        channels == <<inRange(planes[1], b[1], b[2]),
                      inRange(planes[2], b[3], b[4]),
                      inRange(planes[3], b[5], b[6])>>
    IN  IF colorSpaceName = "GRAY"
        THEN [im |-> converted, channels |-> <<>>,
              thresh |-> inRange(converted, b[1], b[2])]
        ELSE [im |-> converted, channels |-> channels,
              thresh |-> bitwise_and(
                  bitwise_and(channels[1], channels[2]), channels[3])]

\* What thresholdImage computes from self.img, self.colorSpaceIdx and the six
\* bounds b = <<ch0Low, ch0High, ch1Low, ch1High, ch2Low, ch2High>>: the
\* converted image it shows in the Original window (im), the per-channel
\* planes after inRange (channels; none for GRAY) and the image it shows in
\* the Thresholded window (thresh).
Threshold(image, idx, b) ==
    LET colorSpaceName == ListAt(COLOR_SPACES, idx)
        converted == IF colorSpaceName # "BGR"
                     THEN cvtColor(image, CV_COLOR_CODES[colorSpaceName])
                     ELSE image
        planes == split(converted)
        channels == <<inRange(planes[1], b[1], b[2]),
                      inRange(planes[2], b[3], b[4]),
                      inRange(planes[3], b[5], b[6])>>
    IN  IF colorSpaceName = "GRAY"
        THEN [im |-> converted, channels |-> <<>>,
              thresh |-> inRange(converted, b[1], b[2])]
        ELSE [im |-> converted, channels |-> channels,
              thresh |-> bitwise_and(
                  bitwise_and(channels[1], channels[2]), channels[3])]

\* A call of thresholdImage with the object's fields as given: it shows the
\* converted image and the mask, and changes no field of the object.
thresholdImage(image, idx, b) ==
    LET t == Threshold(image, idx, b)
    IN  /\ imWin' = t.im
        /\ threshWin' = t.thresh
        /\ lastThresh' = [called |-> TRUE, img |-> image, colorSpaceIdx |-> idx,
                          bounds |-> b, channels |-> t.channels]

\* updateButton that leaves the button as drawn.
updateButtonStale(idx) == ctrlWin' = ctrlWin

\* updateButton: the button shows the name of the current colour space.
updateButton(idx) == ctrlWin' = ListAt(COLOR_SPACES, idx)

----------------------------------------------------------------------------
(* The callbacks. HighGUI delivers control events only while the program is *)
(* inside cv2.waitKey, on the one thread of the program.                    *)

InWaitKey == pc \in {"waitKey0", "waitKey1"}

\* The position asked for, whatever the range of the bar.
TrackbarUnbounded(req) == req

\* The position a trackbar created with count PIXEL_MAX takes when asked for
\* position req: the bar ends at 0 and at its count.
TrackbarRange(req) == Max2(PIXEL_MIN, Min2(PIXEL_MAX, req))

\* cv2.getTrackbarPos as onTrackbar calls it, after the move being handled.
getTrackbarPos(name) == trackbarPos'[name]

\* onTrackbar with each low bound kept at or below its high bound.
onTrackbarOrdered ==
    /\ ch0LowVal' = Min2(getTrackbarPos("Ch0 Low"), getTrackbarPos("Ch0 High"))
    /\ ch0HighVal' = getTrackbarPos("Ch0 High")
    /\ ch1LowVal' = Min2(getTrackbarPos("Ch1 Low"), getTrackbarPos("Ch1 High"))
    /\ ch1HighVal' = getTrackbarPos("Ch1 High")
    /\ ch2LowVal' = Min2(getTrackbarPos("Ch2 Low"), getTrackbarPos("Ch2 High"))
    /\ ch2HighVal' = getTrackbarPos("Ch2 High")
    /\ IF mode = "image"
       THEN thresholdImage(img, colorSpaceIdx, bounds')
       ELSE UNCHANGED <<imWin, threshWin, lastThresh>>

\* onTrackbar that leaves all thresholding to the capture loop.
onTrackbarNoThreshold ==
    /\ ch0LowVal' = getTrackbarPos("Ch0 Low")
    /\ ch0HighVal' = getTrackbarPos("Ch0 High")
    /\ ch1LowVal' = getTrackbarPos("Ch1 Low")
    /\ ch1HighVal' = getTrackbarPos("Ch1 High")
    /\ ch2LowVal' = getTrackbarPos("Ch2 Low")
    /\ ch2HighVal' = getTrackbarPos("Ch2 High")
    /\ UNCHANGED <<imWin, threshWin, lastThresh>>

\* onTrackbar: read all six trackbars, whichever moved; in image mode
\* threshold the image again.
onTrackbar ==
    /\ ch0LowVal' = getTrackbarPos("Ch0 Low")
    /\ ch0HighVal' = getTrackbarPos("Ch0 High")
    /\ ch1LowVal' = getTrackbarPos("Ch1 Low")
    /\ ch1HighVal' = getTrackbarPos("Ch1 High")
    /\ ch2LowVal' = getTrackbarPos("Ch2 Low")
    /\ ch2HighVal' = getTrackbarPos("Ch2 High")
    /\ IF mode = "image"
       THEN thresholdImage(img, colorSpaceIdx, bounds')
       ELSE UNCHANGED <<imWin, threshWin, lastThresh>>

\* The remainder as C computes it: the sign of the dividend.
TruncMod(a, n) == IF a < 0 THEN 0 - ((0 - a) % n) ELSE a % n

\* The remainder by one less than the length of the list.
ShortMod(a, n) == a % (n - 1)

\* Python's %: the result has the sign of the divisor.
PyMod(a, n) == a % n

\* onMouse that thresholds after a click whatever the mode.
onMouseAlwaysThresholds(event) ==
    IF event = "EVENT_LBUTTONDOWN" \/ event = "EVENT_RBUTTONDOWN"
    THEN LET increment == IF event = "EVENT_LBUTTONDOWN" THEN 1 ELSE -1
         IN  /\ colorSpaceIdx' =
                    PyMod(colorSpaceIdx + increment, Len(COLOR_SPACES))
             /\ updateButton(colorSpaceIdx')
             /\ IF img # None
                THEN thresholdImage(img, colorSpaceIdx', bounds)
                ELSE UNCHANGED <<imWin, threshWin, lastThresh>>
    ELSE UNCHANGED <<colorSpaceIdx, ctrlWin, imWin, threshWin, lastThresh>>

\* onMouse that takes every event but a left press for a right press.
onMouseAnyEvent(event) ==
    LET increment == IF event = "EVENT_LBUTTONDOWN" THEN 1 ELSE -1
    IN  /\ colorSpaceIdx' =
               PyMod(colorSpaceIdx + increment, Len(COLOR_SPACES))
        /\ updateButton(colorSpaceIdx')
        /\ IF mode = "image"
           THEN thresholdImage(img, colorSpaceIdx', bounds)
           ELSE UNCHANGED <<imWin, threshWin, lastThresh>>

\* onMouse: a left or right button press on the Controls window cycles the
\* colour space; every other mouse event does nothing.
onMouse(event) ==
    IF event = "EVENT_LBUTTONDOWN" \/ event = "EVENT_RBUTTONDOWN"
    THEN LET increment == IF event = "EVENT_LBUTTONDOWN" THEN 1 ELSE -1
         IN  /\ colorSpaceIdx' =
                    PyMod(colorSpaceIdx + increment, Len(COLOR_SPACES))
             /\ updateButton(colorSpaceIdx')
             /\ IF mode = "image"
                THEN thresholdImage(img, colorSpaceIdx', bounds)
                ELSE UNCHANGED <<imWin, threshWin, lastThresh>>
    ELSE UNCHANGED <<colorSpaceIdx, ctrlWin, imWin, threshWin, lastThresh>>

\* getValues (colorthresh.py): the colour space name and the six bounds.
getValues ==
    [colorSpaceName |-> ListAt(COLOR_SPACES, colorSpaceIdx),
     ch0Low |-> ch0LowVal, ch0High |-> ch0HighVal,
     ch1Low |-> ch1LowVal, ch1High |-> ch1HighVal,
     ch2Low |-> ch2LowVal, ch2High |-> ch2HighVal]

\* In the capture loop, the handler of this step changes a bound or the
\* colour space.
Mutates ==
    /\ mode # "image"
    /\ bounds' # bounds \/ colorSpaceIdx' # colorSpaceIdx

\* The user moves trackbar `name`, asking for position req; the trackbar
\* takes the position its range allows and HighGUI calls onTrackbar.
TrackbarMove(name, req) ==
    /\ InWaitKey
    /\ trackbarPos' = [trackbarPos EXCEPT ![name] = TrackbarRange(req)]
    /\ onTrackbar
    /\ lastEvent' = [kind |-> "trackbar", name |-> name, val |-> req]
    /\ nEvents' = nEvents + 1
    /\ UNCHANGED <<mode, pc, cap, img, colorSpaceIdx, ctrlWin, clickRun,
                   argv, source>>
    /\ mutatedSinceRead' = (mutatedSinceRead \/ Mutates)

\* The run of clicks in one direction after a click in direction dir at
\* index idx.
NextRun(idx, dir) ==
    IF clickRun.dir = dir
    THEN [clickRun EXCEPT !.len = @ + 1]
    ELSE [start |-> idx, dir |-> dir, len |-> 1]

\* HighGUI delivers a mouse event on the Controls window to onMouse.
MouseDelivery(event) ==
    /\ InWaitKey
    /\ onMouse(event)
    /\ lastEvent' = [kind |-> "mouse", name |-> event, val |-> 0]
    /\ nEvents' = nEvents + 1
    /\ clickRun' = CASE event = "EVENT_LBUTTONDOWN" -> NextRun(colorSpaceIdx, 1)
                     [] event = "EVENT_RBUTTONDOWN" -> NextRun(colorSpaceIdx, -1)
                     [] OTHER -> clickRun
    /\ UNCHANGED <<mode, pc, cap, img, trackbarPos,
                   ch0LowVal, ch0HighVal, ch1LowVal, ch1HighVal,
                   ch2LowVal, ch2HighVal, argv, source>>
    /\ mutatedSinceRead' = (mutatedSinceRead \/ Mutates)

----------------------------------------------------------------------------
(* start() *)

\* start() in image mode with an imshow that shows nothing for None and does
\* not raise.
StartImageUnchecked ==
    /\ pc = "start"
    /\ mode = "image"
    /\ \E f \in Frames \cup {None} :
          /\ img' = f
          /\ pc' = "waitKey0"
          /\ IF f = None
             THEN UNCHANGED <<imWin, threshWin, lastThresh>>
             ELSE thresholdImage(f, colorSpaceIdx, bounds)
    /\ UNCHANGED <<mode, cap, colorSpaceIdx, ch0LowVal, ch0HighVal, ch1LowVal,
                   ch1HighVal, ch2LowVal, ch2HighVal, trackbarPos, ctrlWin,
                   lastEvent, nEvents, clickRun, mutatedSinceRead,
                   argv, source>>

\* start() in image mode: imread, show, threshold, then wait for a key.
\* cv2.imread returns None for a file it cannot read, and cv2.imshow then
\* raises.
StartImage ==
    /\ pc = "start"
    /\ mode = "image"
    /\ \E f \in Frames \cup {None} :
          /\ img' = f
          /\ IF f = None
             THEN /\ pc' = "raised"
                  /\ UNCHANGED <<imWin, threshWin, lastThresh>>
             ELSE /\ pc' = "waitKey0"
                  /\ thresholdImage(f, colorSpaceIdx, bounds)
    /\ UNCHANGED <<mode, cap, colorSpaceIdx, ch0LowVal, ch0HighVal, ch1LowVal,
                   ch1HighVal, ch2LowVal, ch2HighVal, trackbarPos, ctrlWin,
                   lastEvent, nEvents, clickRun, mutatedSinceRead,
                   argv, source>>

\* start() in video or camera mode: open the capture; RuntimeError if it
\* does not open.
StartCapture ==
    /\ pc = "start"
    /\ mode # "image"
    /\ \E opened \in BOOLEAN :
          pc' = IF opened THEN "read" ELSE "raised"
    /\ UNCHANGED <<mode, cap, img, colorSpaceIdx, ch0LowVal, ch0HighVal,
                   ch1LowVal, ch1HighVal, ch2LowVal, ch2HighVal, trackbarPos,
                   ctrlWin, imWin, threshWin, lastThresh, lastEvent, nEvents,

                   clickRun, mutatedSinceRead, argv, source>>

\* cap.read() tried again after it failed.
ReadRetries ==
    /\ pc = "read"
    /\ \E grabbed \in {g \in BOOLEAN : g => cap < MaxFrames} :
          IF grabbed
          THEN /\ img' \in Frames
               /\ cap' = cap + 1
               /\ pc' = "waitKey1"
          ELSE /\ img' = None
               /\ pc' = "read"
               /\ UNCHANGED cap
    /\ mutatedSinceRead' = FALSE
    /\ UNCHANGED <<mode, colorSpaceIdx, ch0LowVal, ch0HighVal, ch1LowVal,
                   ch1HighVal, ch2LowVal, ch2HighVal, trackbarPos, ctrlWin,
                   imWin, threshWin, lastThresh, lastEvent, nEvents, clickRun,
                   argv, source>>

\* grabbed, self.img = cap.read(): a frame, or (False, None) when the video
\* has ended or the camera fails, and then the loop ends. A source delivers
\* at most MaxFrames frames.
Read ==
    /\ pc = "read"
    /\ \E grabbed \in {g \in BOOLEAN : g => cap < MaxFrames} :
          IF grabbed
          THEN /\ img' \in Frames
               /\ cap' = cap + 1
               /\ pc' = "waitKey1"
          ELSE /\ img' = None
               /\ pc' = "done"
               /\ UNCHANGED cap
    /\ mutatedSinceRead' = FALSE
    /\ UNCHANGED <<mode, colorSpaceIdx, ch0LowVal, ch0HighVal, ch1LowVal,
                   ch1HighVal, ch2LowVal, ch2HighVal, trackbarPos, ctrlWin,
                   imWin, threshWin, lastThresh, lastEvent, nEvents, clickRun,
                   argv, source>>

\* "q" tested at the end of the iteration: the frame read is shown and
\* thresholded before the loop ends.
KeyQAfterBody ==
    /\ pc = "waitKey1"
    /\ thresholdImage(img, colorSpaceIdx, bounds)
    /\ pc' = "done"
    /\ UNCHANGED <<mode, cap, img, colorSpaceIdx, ch0LowVal, ch0HighVal,
                   ch1LowVal, ch1HighVal, ch2LowVal, ch2HighVal, trackbarPos,
                   ctrlWin, lastEvent, nEvents, clickRun, mutatedSinceRead,
                   argv, source>>

\* cv2.waitKey(1) returns "q": the loop ends before the frame is shown.
KeyQ ==
    /\ pc = "waitKey1"
    /\ pc' = "done"
    /\ UNCHANGED <<mode, cap, img, colorSpaceIdx, ch0LowVal, ch0HighVal,
                   ch1LowVal, ch1HighVal, ch2LowVal, ch2HighVal, trackbarPos,
                   ctrlWin, imWin, threshWin, lastThresh, lastEvent, nEvents,

                   clickRun, mutatedSinceRead, argv, source>>

\* The loop body with a thresholdImage that converts self.img in place when
\* the colour space has three channels.
LoopBodyInPlace ==
    /\ pc = "waitKey1"
    /\ thresholdImage(img, colorSpaceIdx, bounds)
    /\ img' = IF ListAt(COLOR_SPACES, colorSpaceIdx) # "GRAY"
              THEN Threshold(img, colorSpaceIdx, bounds).im
              ELSE img
    /\ pc' = "read"
    /\ UNCHANGED <<mode, cap, colorSpaceIdx, ch0LowVal, ch0HighVal,
                   ch1LowVal, ch1HighVal, ch2LowVal, ch2HighVal, trackbarPos,
                   ctrlWin, lastEvent, nEvents, clickRun, mutatedSinceRead,
                   argv, source>>

\* cv2.waitKey(1) returns anything else: the frame is shown and thresholded
\* and the loop goes on.
LoopBody ==
    /\ pc = "waitKey1"
    /\ pc' = "read"
    /\ thresholdImage(img, colorSpaceIdx, bounds)
    /\ UNCHANGED <<mode, cap, img, colorSpaceIdx, ch0LowVal, ch0HighVal,
                   ch1LowVal, ch1HighVal, ch2LowVal, ch2HighVal, trackbarPos,
                   ctrlWin, lastEvent, nEvents, clickRun, mutatedSinceRead,
                   argv, source>>

\* A key press in image mode that sends start() into the capture loop.
KeyImageEntersLoop ==
    /\ pc = "waitKey0"
    /\ pc' = "read"
    /\ UNCHANGED <<mode, cap, img, colorSpaceIdx, ch0LowVal, ch0HighVal,
                   ch1LowVal, ch1HighVal, ch2LowVal, ch2HighVal, trackbarPos,
                   ctrlWin, imWin, threshWin, lastThresh, lastEvent, nEvents,
                   clickRun, mutatedSinceRead, argv, source>>

\* cv2.waitKey(0) returns on any key press and start() returns.
KeyImage ==
    /\ pc = "waitKey0"
    /\ pc' = "done"
    /\ UNCHANGED <<mode, cap, img, colorSpaceIdx, ch0LowVal, ch0HighVal,
                   ch1LowVal, ch1HighVal, ch2LowVal, ch2HighVal, trackbarPos,
                   ctrlWin, imWin, threshWin, lastThresh, lastEvent, nEvents,

                   clickRun, mutatedSinceRead, argv, source>>

----------------------------------------------------------------------------
(* The specifications. *)

TrackbarEvent ==
    /\ nEvents < MaxEvents
    /\ \E name \in TrackbarNames, req \in SliderRequests : TrackbarMove(name, req)

MouseEvent ==
    /\ nEvents < MaxEvents
    /\ \E event \in MouseEvents : MouseDelivery(event)

Next ==
    \/ StartImage /\ UNCHANGED <<other, gvp>>
    \/ StartCapture /\ UNCHANGED <<other, gvp>>
    \/ Read /\ UNCHANGED <<other, gvp>>
    \/ TrackbarEvent /\ UNCHANGED <<other, gvp>>
    \/ MouseEvent /\ UNCHANGED <<other, gvp>>
    \/ KeyQ /\ UNCHANGED <<other, gvp>>
    \/ LoopBody /\ UNCHANGED <<other, gvp>>
    \/ KeyImage /\ UNCHANGED <<other, gvp>>

\* A session: every mode, every frame, up to MaxEvents control events.
Spec == Init /\ [][Next]_vars

\* The one control event of the sessions checked for termination: the
\* channel-0 low slider moved to 200.
SliderTo200 ==
    /\ nEvents < MaxEvents
    /\ TrackbarMove("Ch0 Low", 200)

NextLoop ==
    \/ StartImage /\ UNCHANGED <<other, gvp>>
    \/ StartCapture /\ UNCHANGED <<other, gvp>>
    \/ Read /\ UNCHANGED <<other, gvp>>
    \/ SliderTo200 /\ UNCHANGED <<other, gvp>>
    \/ KeyQ /\ UNCHANGED <<other, gvp>>
    \/ LoopBody /\ UNCHANGED <<other, gvp>>
    \/ KeyImage /\ UNCHANGED <<other, gvp>>

\* A session in which cv2.VideoCapture, cap.read() and cv2.waitKey(1)
\* return: a capture that can be opened is opened or found closed, and a
\* loop that can go on does go on. cv2.waitKey(0) of image mode waits for a
\* key without limit, and nothing is assumed of it.
SpecFair ==
    /\ Init
    /\ [][NextLoop]_vars
    /\ WF_pc(StartCapture)
    /\ WF_pc(Read)
    /\ WF_pc(LoopBody)

\* The program as started from a shell, before __main__ has parsed the
\* command line: any command line of the model, no mode and no source yet,
\* and the fields and widgets with the values __init__ will give them.
InitMain ==
    /\ argv \in CommandLines
    /\ mode = "none"
    /\ source = None
    /\ pc = "main"
    /\ cap = 0
    /\ img = None
    /\ colorSpaceIdx = 0
    /\ ch0LowVal = PIXEL_MIN
    /\ ch0HighVal = PIXEL_MAX
    /\ ch1LowVal = PIXEL_MIN
    /\ ch1HighVal = PIXEL_MAX
    /\ ch2LowVal = PIXEL_MIN
    /\ ch2HighVal = PIXEL_MAX
    /\ trackbarPos = [n \in TrackbarNames |->
                        IF n \in {"Ch0 Low", "Ch1 Low", "Ch2 Low"}
                        THEN PIXEL_MIN ELSE PIXEL_MAX]
    /\ ctrlWin = ListAt(COLOR_SPACES, 0)
    /\ imWin = None
    /\ threshWin = None
    /\ lastThresh = [called |-> FALSE, img |-> None, colorSpaceIdx |-> 0,
                     bounds |-> <<0, 0, 0, 0, 0, 0>>, channels |-> <<>>]
    /\ lastEvent = [kind |-> "none", name |-> "", val |-> 0]
    /\ nEvents = 0
    /\ clickRun = [start |-> 0, dir |-> 0, len |-> 0]
    /\ mutatedSinceRead = FALSE
    /\ other = None
    /\ gvp = None

\* __main__: parse the command line, choose the mode and the source, and
\* construct the object; or exit from argparse.
Main ==
    /\ pc = "main"
    /\ pc' = IF main(argv).exit THEN "exit" ELSE "start"
    /\ mode' = main(argv).mode
    /\ source' = main(argv).source
    /\ UNCHANGED <<argv, cap, img, colorSpaceIdx, ch0LowVal, ch0HighVal,
                   ch1LowVal, ch1HighVal, ch2LowVal, ch2HighVal, trackbarPos,
                   ctrlWin, imWin, threshWin, lastThresh, lastEvent, nEvents,
                   clickRun, mutatedSinceRead>>

NextMain ==
    \/ Main /\ UNCHANGED <<other, gvp>>
    \/ StartImage /\ UNCHANGED <<other, gvp>>
    \/ StartCapture /\ UNCHANGED <<other, gvp>>
    \/ Read /\ UNCHANGED <<other, gvp>>
    \/ SliderTo200 /\ UNCHANGED <<other, gvp>>
    \/ KeyQ /\ UNCHANGED <<other, gvp>>
    \/ LoopBody /\ UNCHANGED <<other, gvp>>
    \/ KeyImage /\ UNCHANGED <<other, gvp>>

\* The program run from a shell with any command line of the model.
SpecMain == InitMain /\ [][NextMain]_vars

ButtonClick ==
    /\ nEvents < MaxClicks
    /\ \E event \in {"EVENT_LBUTTONDOWN", "EVENT_RBUTTONDOWN"} :
          MouseDelivery(event)

NextClicks ==
    \/ StartImage /\ UNCHANGED <<other, gvp>>
    \/ StartCapture /\ UNCHANGED <<other, gvp>>
    \/ Read /\ UNCHANGED <<other, gvp>>
    \/ ButtonClick /\ UNCHANGED <<other, gvp>>
    \/ KeyQ /\ UNCHANGED <<other, gvp>>
    \/ LoopBody /\ UNCHANGED <<other, gvp>>
    \/ KeyImage /\ UNCHANGED <<other, gvp>>

\* A session whose only control events are button clicks, up to MaxClicks.
SpecClicks == Init /\ [][NextClicks]_vars

----------------------------------------------------------------------------
(* colorthresh.py: the second copy of the class, as a record of its fields  *)
(* and of what its three windows show, stepped by functions on the record.  *)

\* ColorThreshold.__init__ of colorthresh.py, given mode and source.
colorthresh_init(m, src) ==
    [mode |-> m, source |-> src, pc |-> "start", img |-> None,
     colorSpaceIdx |-> 0,
     bounds |-> <<PIXEL_MIN, PIXEL_MAX, PIXEL_MIN, PIXEL_MAX,
                  PIXEL_MIN, PIXEL_MAX>>,
     ctrlWin |-> ListAt(COLOR_SPACES, 0), imWin |-> None, threshWin |-> None]

\* thresholdImage of colorthresh.py: show the converted image and the mask.
colorthresh_thresholdImage(o) ==
    LET t == Threshold(o.img, o.colorSpaceIdx, o.bounds)
    IN  [o EXCEPT !.imWin = t.im, !.threshWin = t.thresh]

\* onTrackbar of colorthresh.py with the trackbars at positions pos.
colorthresh_onTrackbar(o, pos) ==
    LET moved == [o EXCEPT !.bounds =
                     <<pos["Ch0 Low"], pos["Ch0 High"], pos["Ch1 Low"],
                       pos["Ch1 High"], pos["Ch2 Low"], pos["Ch2 High"]>>]
    IN  IF o.mode = "image" THEN colorthresh_thresholdImage(moved) ELSE moved

\* onMouse of colorthresh.py, updateButton included.
colorthresh_onMouse(o, event) ==
    IF event = "EVENT_LBUTTONDOWN" \/ event = "EVENT_RBUTTONDOWN"
    THEN LET increment == IF event = "EVENT_LBUTTONDOWN" THEN 1 ELSE -1
             idx == PyMod(o.colorSpaceIdx + increment, Len(COLOR_SPACES))
             cycled == [o EXCEPT !.colorSpaceIdx = idx,
                                 !.ctrlWin = ListAt(COLOR_SPACES, idx)]
         IN  IF o.mode = "image"
             THEN colorthresh_thresholdImage(cycled)
             ELSE cycled
    ELSE o

\* cv2.destroyAllWindows(), the last statement of start() in colorthresh.py:
\* no window is left, so no button text and no image is shown.
destroyAllWindows(o) ==
    [o EXCEPT !.ctrlWin = "", !.imWin = None, !.threshWin = None]

\* start() of colorthresh.py in image mode, with imread returning f.
colorthresh_imread(o, f) ==
    IF f = None
    THEN [o EXCEPT !.img = f, !.pc = "raised"]
    ELSE colorthresh_thresholdImage([o EXCEPT !.img = f, !.pc = "waitKey0"])

\* start() of colorthresh.py in image mode when cv2.waitKey(0) returns.
colorthresh_waitKey0(o) == destroyAllWindows([o EXCEPT !.pc = "done"])

\* start() of colorthresh.py in video or camera mode, opening the capture:
\* the RuntimeError leaves start() before destroyAllWindows.
colorthresh_VideoCapture(o, opened) ==
    [o EXCEPT !.pc = IF opened THEN "read" ELSE "raised"]

\* cap.read() in the loop of colorthresh.py returning (grabbed, f).
colorthresh_read(o, grabbed, f) ==
    IF grabbed
    THEN [o EXCEPT !.img = f, !.pc = "waitKey1"]
    ELSE destroyAllWindows([o EXCEPT !.img = None, !.pc = "done"])

\* cv2.waitKey(1) in the loop of colorthresh.py returning key.
colorthresh_waitKey1(o, key) ==
    IF key = "q"
    THEN destroyAllWindows([o EXCEPT !.pc = "done"])
    ELSE colorthresh_thresholdImage([o EXCEPT !.pc = "read"])

\* The two objects constructed with the same mode and source.
InitPair ==
    /\ Constructed
    /\ other = colorthresh_init(mode, source)
    /\ gvp = None

\* Each step of a session is taken by both programs on the same input: the
\* image or frame read, whether the capture opened, the key, the trackbar
\* positions, the mouse event.
PairStartImage == StartImage /\ other' = colorthresh_imread(other, img')

PairStartCapture ==
    StartCapture /\ other' = colorthresh_VideoCapture(other, pc' = "read")

PairRead == Read /\ other' = colorthresh_read(other, pc' = "waitKey1", img')

PairKeyQ == KeyQ /\ other' = colorthresh_waitKey1(other, "q")

PairLoopBody == LoopBody /\ other' = colorthresh_waitKey1(other, "")

PairKeyImage == KeyImage /\ other' = colorthresh_waitKey0(other)

PairTrackbarEvent ==
    TrackbarEvent /\ other' = colorthresh_onTrackbar(other, trackbarPos')

PairMouseEvent ==
    MouseEvent /\ other' = colorthresh_onMouse(other, lastEvent'.name)

NextPair ==
    \/ PairStartImage /\ UNCHANGED gvp
    \/ PairStartCapture /\ UNCHANGED gvp
    \/ PairRead /\ UNCHANGED gvp
    \/ PairTrackbarEvent /\ UNCHANGED gvp
    \/ PairMouseEvent /\ UNCHANGED gvp
    \/ PairKeyQ /\ UNCHANGED gvp
    \/ PairLoopBody /\ UNCHANGED gvp
    \/ PairKeyImage /\ UNCHANGED gvp

\* A session of ColorThreshUtil.py and a session of colorthresh.py side by
\* side, in the same mode and on the same frames and events.
SpecPair == InitPair /\ [][NextPair]_vars

----------------------------------------------------------------------------
(* get_video_pixel.py: a script, its globals held in the record gvp. The   *)
(* two copies of the file differ in names and in the order in which the key *)
(* is tested against "t" and "q".                                           *)

\* The variables of the ColorThreshold sessions, which this script leaves
\* alone.
ColorThresholdVars ==
    <<mode, pc, cap, img, colorSpaceIdx,
      ch0LowVal, ch0HighVal, ch1LowVal, ch1HighVal, ch2LowVal, ch2HighVal,
      trackbarPos, ctrlWin, imWin, threshWin, lastThresh, lastEvent,
      nEvents, clickRun, mutatedSinceRead, argv, source, other>>

\* np.zeros(frame.shape, dtype=np.uint8)
zeros(frame) == [i \in DOMAIN frame |-> <<0, 0, 0>>]

Keys == {"q", "t", ""}

\* The script before its first statement: no capture, no frame, no window.
\* No ColorThreshold session runs.
InitPixel ==
    /\ Constructed
    /\ mode = "cam"
    /\ other = None
    /\ gvp = [pc |-> "VideoCapture", frame |-> None, snapshot |-> None,
              colorArray |-> None, videoWin |-> None, snapshotWin |-> None,
              colorWin |-> None, videoCalls |-> 0, reads |-> 0, clicks |-> 0,
              last |-> [kind |-> "none", name |-> "", at |-> 0]]

\* capture = cv2.VideoCapture(0); RuntimeError if it is not opened.
gvp_VideoCapture ==
    /\ gvp.pc = "VideoCapture"
    /\ \E opened \in BOOLEAN :
          gvp' = [gvp EXCEPT
                    !.pc = IF opened THEN "first" ELSE "raised",
                    !.last = [kind |-> "open", name |-> "", at |-> 0]]
    /\ UNCHANGED ColorThresholdVars

\* The read before the loop, which sizes the black snapshot, and the two
\* imshow calls after it. frame.shape raises when the read fails and frame
\* is None.
gvp_first_read ==
    /\ gvp.pc = "first"
    /\ \E grabbed \in BOOLEAN :
          IF grabbed
          THEN \E f \in Frames :
                  gvp' = [gvp EXCEPT
                            !.pc = "read", !.frame = f,
                            !.snapshot = zeros(f), !.snapshotWin = zeros(f),
                            !.colorArray = [fill |-> <<0, 0, 0>>,
                                            text |-> None, textColor |-> None],
                            !.colorWin = [fill |-> <<0, 0, 0>>,
                                          text |-> None, textColor |-> None],
                            !.last = [kind |-> "read", name |-> "grabbed",
                                      at |-> 0]]
          ELSE gvp' = [gvp EXCEPT
                         !.pc = "raised", !.frame = None,
                         !.last = [kind |-> "read", name |-> "failed",
                                   at |-> 0]]
    /\ UNCHANGED ColorThresholdVars

\* The top of the loop: capture.read(), then cv2.imshow('Video', frame),
\* then the test of grabbed. A failed read returns (False, None), and
\* cv2.imshow raises when handed None. The capture delivers at most
\* MaxFrames frames to the loop.
gvp_read ==
    /\ gvp.pc = "read"
    /\ \E grabbed \in {g \in BOOLEAN : g => gvp.reads < MaxFrames} :
          IF grabbed
          THEN \E f \in Frames :
                  gvp' = [gvp EXCEPT
                            !.pc = "waitKey", !.frame = f, !.videoWin = f,
                            !.videoCalls = @ + 1, !.reads = @ + 1,
                            !.last = [kind |-> "read", name |-> "grabbed",
                                      at |-> 0]]
          ELSE gvp' = [gvp EXCEPT
                         !.pc = "raised", !.frame = None,
                         !.videoCalls = @ + 1,
                         !.last = [kind |-> "read", name |-> "failed",
                                   at |-> 0]]
    /\ UNCHANGED ColorThresholdVars

\* on_mouse_click with the event at pixel i of the Snapshot window: the
\* globals after the call.
on_mouse_click(g, event, i) ==
    IF event = "EVENT_LBUTTONDOWN"
    THEN LET bgr == g.snapshot[i]
             rgb == <<bgr[3], bgr[2], bgr[1]>>
             dark == 299 * rgb[1] + 587 * rgb[2] + 114 * rgb[3] > 127500
             textColor == IF dark THEN <<0, 0, 0>> ELSE <<255, 255, 255>>
             drawn == [fill |-> bgr, text |-> rgb, textColor |-> textColor]
         IN  [g EXCEPT !.colorArray = drawn, !.colorWin = drawn]
    ELSE g

\* HighGUI delivers a mouse event on the Snapshot window, while the loop is
\* in cv2.waitKey(1).
gvp_mouse ==
    /\ gvp.pc = "waitKey"
    /\ gvp.clicks < MaxEvents
    /\ \E event \in MouseEvents, i \in DOMAIN gvp.snapshot :
          gvp' = [on_mouse_click(gvp, event, i) EXCEPT
                    !.clicks = @ + 1,
                    !.last = [kind |-> "mouse", name |-> event, at |-> i]]
    /\ UNCHANGED ColorThresholdVars

\* cv2.waitKey(1) returns: "q" leaves the loop, and the capture is released
\* and the windows destroyed; "t" takes the snapshot; any other key, or
\* none, goes round.
gvp_waitKey ==
    /\ gvp.pc = "waitKey"
    /\ \E keyVal \in Keys :
          gvp' =
            CASE keyVal = "q" ->
                   [gvp EXCEPT !.pc = "done", !.videoWin = None,
                               !.snapshotWin = None, !.colorWin = None,
                               !.last = [kind |-> "key", name |-> keyVal,
                                         at |-> 0]]
              [] keyVal = "t" ->
                   [gvp EXCEPT !.pc = "read", !.snapshot = gvp.frame,
                               !.snapshotWin = gvp.frame,
                               !.last = [kind |-> "key", name |-> keyVal,
                                         at |-> 0]]
              [] OTHER ->
                   [gvp EXCEPT !.pc = "read",
                               !.last = [kind |-> "key", name |-> keyVal,
                                         at |-> 0]]
    /\ UNCHANGED ColorThresholdVars

NextPixel ==
    \/ gvp_VideoCapture
    \/ gvp_first_read
    \/ gvp_read
    \/ gvp_mouse
    \/ gvp_waitKey

\* A run of get_video_pixel.py: any frames, up to MaxFrames in the loop,
\* and up to MaxEvents mouse events.
SpecPixel == InitPixel /\ [][NextPixel]_vars

----------------------------------------------------------------------------
(* Properties. They read the last call of thresholdImage (lastThresh), the  *)
(* two image windows, the object's fields and the last control event.       *)

ThreeChannel(idx) == ListAt(COLOR_SPACES, idx) # "GRAY"

\* The bound pair <<low, high>> of channel slot n (1..3) in a six-tuple b.
Low(b, n) == b[2 * n - 1]
High(b, n) == b[2 * n]

Pixels(image) == 1..Len(image)

AllBackground(mask) == \A i \in Pixels(mask) : mask[i] = 0
AllForeground(mask) == \A i \in Pixels(mask) : mask[i] = 255

\* The image is of one colour, with channel-0 value v.
UniformWithCh0(image, v) ==
    /\ image # None
    /\ \A i \in Pixels(image) : image[i] = image[1] /\ image[i][1] = v

ScenarioBounds == <<100, 200, 0, 255, 0, 255>>

\* C1. Each per-channel mask bit thresholdImage produces is foreground iff
\* low < v < high, strictly at both ends, for the pixel's value v in that
\* channel and the bound pair of that slot (for GRAY: the mask itself against
\* slot 0); so v = low, v = high and low >= high give background. The
\* documentation of the Thresholded window states it; cv2.inRange includes
\* both ends.
C1_StrictRangeTest ==
    lastThresh.called =>
        IF ThreeChannel(lastThresh.colorSpaceIdx)
        THEN \A n \in 1..3 : \A i \in Pixels(imWin) :
                (lastThresh.channels[n][i] = 255) <=>
                    /\ Low(lastThresh.bounds, n) < imWin[i][n]
                    /\ imWin[i][n] < High(lastThresh.bounds, n)
        ELSE \A i \in Pixels(imWin) :
                (threshWin[i] = 255) <=>
                    /\ Low(lastThresh.bounds, 1) < imWin[i]
                    /\ imWin[i] < High(lastThresh.bounds, 1)

InRangeOf(v, b, n) == Low(b, n) <= v /\ v <= High(b, n)

\* C3. Under a 3-channel colour space, plane n of the converted image is
\* tested against bound pair n, and a pixel is foreground in the mask iff
\* it is foreground in all three planes.
C3_MaskIsIntersection ==
    (lastThresh.called /\ ThreeChannel(lastThresh.colorSpaceIdx)) =>
        \A i \in Pixels(threshWin) :
            /\ threshWin[i] \in {0, 255}
            /\ \A n \in 1..3 :
                  (lastThresh.channels[n][i] = 255)
                      <=> InRangeOf(imWin[i][n], lastThresh.bounds, n)
            /\ (threshWin[i] = 255) <=>
                  \A n \in 1..3 : lastThresh.channels[n][i] = 255

\* Under a 3-channel colour space other than BGR, one pixel passes all three
\* tests and another fails channel 2 alone.
C3_Witness ==
    /\ lastThresh.called
    /\ lastThresh.colorSpaceIdx \in 2..6
    /\ \E i \in Pixels(threshWin) : threshWin[i] = 255
    /\ \E i \in Pixels(threshWin) :
          /\ threshWin[i] = 0
          /\ lastThresh.channels[1][i] = 255
          /\ lastThresh.channels[2][i] = 255
          /\ lastThresh.channels[3][i] = 0

\* The positions the sliders of the model can take.
Positions == {TrackbarRange(r) : r \in SliderRequests} \cup {PIXEL_MIN, PIXEL_MAX}

\* C4. Under GRAY the mask depends on the frame and the slot-0 pair alone:
\* it is the range test of the grey value against slot 0, and other slot-1
\* and slot-2 bounds (any pair of slider positions, in both slots) give the
\* same mask; and the stored slot-1 and slot-2 bounds stay what their
\* sliders say (kept, not cleared).
C4_GrayIgnoresSlots12 ==
    /\ (lastThresh.called /\ ~ThreeChannel(lastThresh.colorSpaceIdx)) =>
          /\ \A i \in Pixels(threshWin) :
                (threshWin[i] = 255) <=> InRangeOf(imWin[i], lastThresh.bounds, 1)
          /\ \A l, h \in Positions :
                Threshold(lastThresh.img, lastThresh.colorSpaceIdx,
                          <<lastThresh.bounds[1], lastThresh.bounds[2],
                            l, h, l, h>>).thresh = threshWin
    /\ ~ThreeChannel(colorSpaceIdx) =>
          /\ ch1LowVal = trackbarPos["Ch1 Low"]
          /\ ch1HighVal = trackbarPos["Ch1 High"]
          /\ ch2LowVal = trackbarPos["Ch2 Low"]
          /\ ch2HighVal = trackbarPos["Ch2 High"]

\* GRAY has been thresholded with slot-1 bounds that no pixel of the frame
\* would pass, the mask has foreground pixels, and the bounds are still
\* stored.
C4_Witness ==
    /\ lastThresh.called
    /\ lastThresh.colorSpaceIdx = 1
    /\ lastThresh.bounds[3] = 0
    /\ lastThresh.bounds[4] = 0
    /\ ch1HighVal = 0
    /\ \A i \in Pixels(lastThresh.img) : lastThresh.img[i][2] > 0
    /\ AllForeground(threshWin)

\* C5. colorSpaceIdx is always an index of the seven colour spaces, so what
\* updateButton and thresholdImage look up exists.
C5_IndexInRange ==
    /\ colorSpaceIdx \in 0..6
    /\ ctrlWin \in {"BGR", "GRAY", "HSV", "Lab", "Luv", "YCrCb", "YUV"}
    /\ lastThresh.called => lastThresh.colorSpaceIdx \in 0..6

\* A backward click at index 0 has been handled, after a bound change.
C5_Witness ==
    /\ colorSpaceIdx = 6
    /\ lastEvent.kind = "mouse"
    /\ lastEvent.name = "EVENT_RBUTTONDOWN"
    /\ bounds # <<0, 255, 0, 255, 0, 255>>
    /\ lastThresh.called

\* C6. Seven clicks in one direction bring colorSpaceIdx back to where the
\* run of clicks started, and fewer than seven do not.
C6_SevenCyclesReturn ==
    /\ clickRun.len = 7 => colorSpaceIdx = clickRun.start
    /\ clickRun.len \in 1..6 => colorSpaceIdx # clickRun.start

\* Seven backward clicks have been handled, from index 3, through the wrap
\* from 0 to 6.
C6_Witness ==
    /\ clickRun.len = 7
    /\ clickRun.dir = -1
    /\ clickRun.start = 3
    /\ colorSpaceIdx = 3

Catalog == <<"BGR", "GRAY", "HSV", "Lab", "Luv", "YCrCb", "YUV">>

\* A step that handles a mouse event.
MouseStep == lastEvent'.kind = "mouse" /\ nEvents' = nEvents + 1

\* C7. A left click takes index i to i + 1, and 6 to 0; a right click takes
\* i to i - 1, and 0 to 6; the index stays non-negative and the button then
\* names the colour space at the new index in the order BGR, GRAY, HSV, Lab,
\* Luv, YCrCb, YUV.
C7_CycleStep ==
    [][ MouseStep =>
          /\ lastEvent'.name = "EVENT_LBUTTONDOWN" =>
                colorSpaceIdx' = IF colorSpaceIdx = 6 THEN 0
                                 ELSE colorSpaceIdx + 1
          /\ lastEvent'.name = "EVENT_RBUTTONDOWN" =>
                colorSpaceIdx' = IF colorSpaceIdx = 0 THEN 6
                                 ELSE colorSpaceIdx - 1
          /\ colorSpaceIdx' \in 0..6
          /\ ctrlWin' = Catalog[colorSpaceIdx' + 1]
      ]_vars

\* A forward click at index 6 has been handled, after the backward click
\* from 0 that led to 6.
C7_Witness ==
    /\ lastEvent.kind = "mouse"
    /\ lastEvent.name = "EVENT_LBUTTONDOWN"
    /\ clickRun = [start |-> 6, dir |-> 1, len |-> 1]
    /\ colorSpaceIdx = 0
    /\ ctrlWin = "BGR"

\* The key of getValues that holds the bound of a trackbar.
ValueKey(name) ==
    CASE name = "Ch0 Low"  -> "ch0Low"
      [] name = "Ch0 High" -> "ch0High"
      [] name = "Ch1 Low"  -> "ch1Low"
      [] name = "Ch1 High" -> "ch1High"
      [] name = "Ch2 Low"  -> "ch2Low"
      [] name = "Ch2 High" -> "ch2High"

\* The trackbar paired with a trackbar: the other bound of its channel.
Paired(name) ==
    CASE name = "Ch0 Low"  -> "Ch0 High"
      [] name = "Ch0 High" -> "Ch0 Low"
      [] name = "Ch1 Low"  -> "Ch1 High"
      [] name = "Ch1 High" -> "Ch1 Low"
      [] name = "Ch2 Low"  -> "Ch2 High"
      [] name = "Ch2 High" -> "Ch2 Low"

InRange8(v) == v \in 0..255

\* C8. After a slider is set to a value b in 0..255, getValues reads exactly
\* b for that bound, and each other bound reads as its own slider stands.
C8_BoundReadBack ==
    (lastEvent.kind = "trackbar" /\ InRange8(lastEvent.val)) =>
        /\ getValues[ValueKey(lastEvent.name)] = lastEvent.val
        /\ \A n \in TrackbarNames \ {lastEvent.name} :
              getValues[ValueKey(n)] = trackbarPos[n]

\* A low slider has been set above its high slider, which was itself moved
\* before.
C8_Witness ==
    /\ lastEvent = [kind |-> "trackbar", name |-> "Ch0 Low", val |-> 200]
    /\ trackbarPos["Ch0 High"] = 100
    /\ getValues.ch0Low = 200

\* A step that handles the move of a slider asked to go outside 0..255.
OutOfRangeStep ==
    /\ lastEvent'.kind = "trackbar"
    /\ nEvents' = nEvents + 1
    /\ ~InRange8(lastEvent'.val)

LowAboveHigh(b) == \E n \in 1..3 : Low(b, n) > High(b, n)

\* C10. A low slider set above its paired high slider is stored as set, and
\* the high bound stays as its slider stands; and under a 3-channel colour
\* space, a low bound above its high bound makes the whole mask background.
C10_LowAboveHighIsEmpty ==
    /\ ( /\ lastEvent.kind = "trackbar"
         /\ lastEvent.name \in {"Ch0 Low", "Ch1 Low", "Ch2 Low"}
         /\ InRange8(lastEvent.val)
         /\ lastEvent.val > trackbarPos[Paired(lastEvent.name)] )
       => /\ getValues[ValueKey(lastEvent.name)] = lastEvent.val
          /\ getValues[ValueKey(Paired(lastEvent.name))]
                = trackbarPos[Paired(lastEvent.name)]
          /\ getValues[ValueKey(lastEvent.name)]
                > getValues[ValueKey(Paired(lastEvent.name))]
    /\ ( /\ lastThresh.called
         /\ ThreeChannel(lastThresh.colorSpaceIdx)
         /\ LowAboveHigh(lastThresh.bounds) )
       => AllBackground(threshWin)

\* Slot 1 has low 200 above high 100, set last, and a frame whose channel-1
\* value lies between the two has been thresholded under BGR with the other
\* two slots wide open.
C10_Witness ==
    /\ lastEvent = [kind |-> "trackbar", name |-> "Ch1 Low", val |-> 200]
    /\ lastThresh.called
    /\ lastThresh.colorSpaceIdx = 0
    /\ lastThresh.bounds = <<0, 255, 200, 100, 0, 255>>
    /\ \A i \in Pixels(lastThresh.img) : lastThresh.img[i][2] = 150
    /\ AllBackground(threshWin)

DefaultBounds == <<0, 255, 0, 255, 0, 255>>

\* C11. Before any control event is handled, colorSpaceIdx is 0, the
\* identity space BGR, the three bound pairs are low 0 and high 255, the
\* sliders stand there, the button names BGR, and every frame thresholded so
\* far was thresholded with these values.
C11_InitialConfiguration ==
    nEvents = 0 =>
        /\ colorSpaceIdx = 0
        /\ CV_COLOR_CODES[ListAt(COLOR_SPACES, colorSpaceIdx)] = "None"
        /\ bounds = DefaultBounds
        /\ \A k \in 1..6 : trackbarPos[TRACKBARS[k]] = DefaultBounds[k]
        /\ ctrlWin = "BGR"
        /\ lastThresh.called =>
              /\ lastThresh.colorSpaceIdx = 0
              /\ lastThresh.bounds = DefaultBounds

\* A frame has been thresholded and the session waits for events, none
\* handled yet.
C11_Witness ==
    /\ nEvents = 0
    /\ InWaitKey
    /\ lastThresh.called
    /\ lastThresh.bounds = DefaultBounds
    /\ ctrlWin = "BGR"

\* thresholdImage was the last thing the session did: it is back at the top
\* of the capture loop, or back in cv2.waitKey(0) of image mode, where every
\* handler that changes a field ends with thresholdImage.
JustThresholded == lastThresh.called /\ pc \in {"read", "waitKey0"}

\* C12. thresholdImage changes no field it reads: when it has returned,
\* self.img, colorSpaceIdx and the six bounds are what the call read; and a
\* further call, with nothing changed in between, gives the converted image
\* and the mask that are on display.
C12_ThresholdChangesNoField ==
    JustThresholded =>
        /\ img = lastThresh.img
        /\ colorSpaceIdx = lastThresh.colorSpaceIdx
        /\ bounds = lastThresh.bounds
        /\ Threshold(img, colorSpaceIdx, bounds).im = imWin
        /\ Threshold(img, colorSpaceIdx, bounds).thresh = threshWin

\* Two calls in a row with nothing changed in between, in image mode: start()
\* thresholded, then the first control event set a slider to the position it
\* had and onTrackbar thresholded again.
C12_Witness ==
    /\ mode = "image"
    /\ nEvents = 1
    /\ lastEvent = [kind |-> "trackbar", name |-> "Ch0 Low", val |-> 0]
    /\ JustThresholded
    /\ threshWin # None

\* C13. Under BGR, index 0, the image thresholdImage shows in the Original
\* window is the frame itself, pixel for pixel, and computing the mask from
\* it leaves self.img as it was: after the call self.img is still the frame
\* the call read, and the mask is a separate single-channel image.
C13_IdentityShowsFrame ==
    (lastThresh.called /\ lastThresh.colorSpaceIdx = 0) =>
        /\ Len(imWin) = Len(lastThresh.img)
        /\ \A i \in Pixels(imWin) : \A n \in 1..3 :
              imWin[i][n] = lastThresh.img[i][n]
        /\ JustThresholded => img = imWin
        /\ \A i \in Pixels(threshWin) : threshWin[i] \in {0, 255}

\* Under BGR a frame of two colours has been thresholded with bounds that
\* turn one of its pixels to background, and self.img still has both.
C13_Witness ==
    /\ JustThresholded
    /\ lastThresh.colorSpaceIdx = 0
    /\ img[1] # img[2]
    /\ threshWin[1] # threshWin[2]
    /\ imWin = img

\* A step that handles a control event: a slider move or a mouse event.
EventStep == nEvents' = nEvents + 1

\* The record thresholdImage leaves of a call that read image, idx and b.
CallOf(image, idx, b) ==
    [called |-> TRUE, img |-> image, colorSpaceIdx |-> idx, bounds |-> b,
     channels |-> Threshold(image, idx, b).channels]

\* C14. In image mode, when a control event has been handled the two
\* windows show what thresholdImage gives for the image read at start under
\* the colour space and bounds as they now are; the handler acquires no
\* frame and still waits in cv2.waitKey(0); if it changed a bound or the
\* colour space it called thresholdImage with the new values; and a change
\* that gives another mask gives another mask on display.
C14_ImageModeRethresholds ==
    [][ (mode = "image" /\ EventStep) =>
          /\ img' = img
          /\ cap' = cap
          /\ pc' = "waitKey0"
          /\ imWin' = Threshold(img, colorSpaceIdx', bounds').im
          /\ threshWin' = Threshold(img, colorSpaceIdx', bounds').thresh
          /\ (bounds' # bounds \/ colorSpaceIdx' # colorSpaceIdx) =>
                lastThresh' = CallOf(img, colorSpaceIdx', bounds')
          /\ (Threshold(img, colorSpaceIdx', bounds').thresh
                # Threshold(img, colorSpaceIdx, bounds).thresh) =>
                threshWin' # threshWin
      ]_vars

\* In image mode the first control event raised the channel-0 low bound to
\* 200 over an image whose channel-0 values are 150: the mask, all
\* foreground after start(), is all background now, and the image is the one
\* read at start.
C14_Witness ==
    /\ mode = "image"
    /\ pc = "waitKey0"
    /\ nEvents = 1
    /\ lastEvent = [kind |-> "trackbar", name |-> "Ch0 Low", val |-> 200]
    /\ colorSpaceIdx = 0
    /\ \A i \in Pixels(img) : img[i][1] = 150
    /\ AllBackground(threshWin)
    /\ lastThresh.bounds = <<200, 255, 0, 255, 0, 255>>
    /\ cap = 0

\* A step of the capture loop that shows and thresholds the frame read.
LoopStep == pc = "waitKey1" /\ pc' = "read"

\* C15, as claimed. In video and camera mode, once a control event has
\* changed a bound or the colour space, the mask on display keeps the value
\* computed for the last frame thresholded until the next frame is read:
\* the change takes effect on the next frame acquired.
C15_TakesEffectOnNextAcquired ==
    [][ (mode # "image" /\ mutatedSinceRead /\ lastThresh.called) =>
            threshWin' = threshWin
      ]_vars

\* C15, amended. In video and camera mode a handler thresholds nothing and
\* reads no frame: the windows change only when the loop thresholds. Events
\* are handled inside cv2.waitKey(1), after cap.read() and before the frame
\* read is thresholded, so the loop thresholds that frame, read before the
\* change, with the bounds and colour space as they stand when it runs, all
\* six bounds being the slider positions.
C15_TakesEffectOnPendingFrame ==
    [][ mode # "image" =>
          /\ EventStep =>
                /\ UNCHANGED <<imWin, threshWin, lastThresh, img, cap>>
                /\ pc = "waitKey1" /\ pc' = "waitKey1"
          /\ LoopStep =>
                /\ img' = img
                /\ \A k \in 1..6 : bounds[k] = trackbarPos[TRACKBARS[k]]
                /\ lastThresh' = CallOf(img, colorSpaceIdx, bounds)
                /\ imWin' = Threshold(img, colorSpaceIdx, bounds).im
                /\ threshWin' = Threshold(img, colorSpaceIdx, bounds).thresh
          /\ ~LoopStep => UNCHANGED <<threshWin, imWin, lastThresh>>
      ]_vars

\* The second frame of a video was read, then the only control event raised
\* the channel-0 low bound to 200, then the loop thresholded that frame,
\* whose channel-0 values are 150, with the new bound: the mask is all
\* background, and no frame has been read since the change.
C15_Witness ==
    /\ mode = "video"
    /\ pc = "read"
    /\ cap = 2
    /\ mutatedSinceRead
    /\ nEvents = 1
    /\ lastEvent = [kind |-> "trackbar", name |-> "Ch0 Low", val |-> 200]
    /\ lastThresh = CallOf(img, 0, <<200, 255, 0, 255, 0, 255>>)
    /\ \A i \in Pixels(img) : img[i][1] = 150
    /\ AllBackground(threshWin)

\* A step in which cv2.waitKey(1) returns a key and the iteration goes on or
\* the loop ends.
PollReturns == mode # "image" /\ pc = "waitKey1" /\ pc' # "waitKey1"

\* C16, as claimed. Whatever key cv2.waitKey(1) returns, "q" included, the
\* frame read in this iteration is converted, thresholded and shown before
\* the loop goes on or ends.
C16_NoFrameDropped ==
    [][ PollReturns =>
          /\ lastThresh' = CallOf(img, colorSpaceIdx, bounds)
          /\ imWin' = Threshold(img, colorSpaceIdx, bounds).im
          /\ threshWin' = Threshold(img, colorSpaceIdx, bounds).thresh
      ]_vars

\* C16, amended. "q" returned by cv2.waitKey(1) ends the loop at once: the
\* frame read in this iteration is neither thresholded nor shown, and the
\* windows keep what they showed; any other key, or none, has the frame
\* thresholded and shown and the loop read on.
C16_QuitDropsPendingFrame ==
    [][ PollReturns =>
          /\ pc' \in {"done", "read"}
          /\ img' = img
          /\ pc' = "done" => UNCHANGED <<imWin, threshWin, lastThresh, cap>>
          /\ pc' = "read" =>
                /\ lastThresh' = CallOf(img, colorSpaceIdx, bounds)
                /\ threshWin' = Threshold(img, colorSpaceIdx, bounds).thresh
      ]_vars

\* "q" ended the loop in its second iteration: the second frame, another
\* than the first, was read and is held, and the last frame thresholded is
\* the first.
C16_Witness ==
    /\ mode = "cam"
    /\ pc = "done"
    /\ cap = 2
    /\ img # None
    /\ lastThresh.called
    /\ lastThresh.img # img

\* A step in which cap.read() fails.
ReadFails == mode # "image" /\ pc = "read" /\ pc' # "waitKey1"

\* The session is over: start() returned, or raised.
Over == pc \in {"done", "raised"}

\* C17. In video and camera mode the first cap.read() that fails ends the
\* loop and start() returns without raising: nothing is thresholded or
\* shown for it, nothing is read after it, nor does anything else happen in
\* the session; and because the source delivers finitely many frames, the
\* session ends whether or not "q" is ever pressed.
C17_FailedReadEndsSession ==
    /\ [][ ReadFails =>
             /\ pc' = "done"
             /\ img' = None
             /\ UNCHANGED <<imWin, threshWin, lastThresh, cap>>
         ]_vars
    /\ [][ pc # "done" ]_vars
    /\ [](mode # "image" => <>Over)

\* A video ended after two frames, both thresholded: start() has returned, no
\* frame is held, and the windows show the second frame.
C17_Witness ==
    /\ mode = "video"
    /\ pc = "done"
    /\ img = None
    /\ cap = 2
    /\ lastThresh.called
    /\ threshWin # None

\* C18. A source that cannot be used at startup makes start() raise before
\* anything is thresholded: in image mode a file cv2.imread cannot read
\* leaves self.img None and cv2.imshow raises; in video and camera mode a
\* capture that is not opened raises RuntimeError before the first
\* cap.read(). When start() has raised, no frame was read from a capture, no
\* call of thresholdImage was made, both windows are empty, no control event
\* was handled, and the session is over.
C18_StartupFailureRaises ==
    /\ [](pc = "raised" =>
            /\ ~lastThresh.called
            /\ imWin = None
            /\ threshWin = None
            /\ cap = 0
            /\ nEvents = 0
            /\ img = None)
    /\ []((mode = "image" /\ pc # "start" /\ img = None) => pc = "raised")
    /\ [][ pc = "start" =>
             /\ pc' \in {"raised", IF mode = "image" THEN "waitKey0" ELSE "read"}
             /\ pc' # "raised" =>
                   IF mode = "image"
                   THEN img' # None /\ lastThresh'.called
                   ELSE UNCHANGED <<img, lastThresh>>
         ]_vars
    /\ [][ pc # "raised" ]_vars

\* The camera could not be opened: start() has raised, and nothing was read,
\* thresholded or shown.
C18_Witness ==
    /\ mode = "cam"
    /\ pc = "raised"
    /\ img = None
    /\ ~lastThresh.called
    /\ threshWin = None

\* The options of a command line that name a source.
SourceOptions(line) ==
    {o \in {"image", "video", "cam"} : line[o] # None}

\* C19. Whatever options the command line gives, __main__ neither exits nor
\* raises but constructs the object in one of the modes image, video and
\* cam; and a command line that names more than one source (an image path
\* and a video path together, say), or gives --cam something that is not an
\* integer, starts camera mode, on the camera index given, or 0. The usage
\* notes say so; __main__ takes the image when one is given and argparse
\* exits on a bad --cam.
C19_InvalidFlagsGiveCamera ==
    pc # "main" =>
        /\ pc # "exit"
        /\ mode \in {"image", "video", "cam"}
        /\ ( \/ Cardinality(SourceOptions(argv)) > 1
             \/ (argv.cam # None /\ int(argv.cam[1]) = None) )
           => /\ mode = "cam"
              /\ source = Some(parse_args(argv).cam)

\* The image has one channel: its pixels are values in 0..255.
SingleChannel(image) == \A i \in Pixels(image) : image[i] \in 0..255

\* The image has three channels, each pixel three values in 0..255.
ThreeChannels(image) ==
    \A i \in Pixels(image) :
        Len(image[i]) = 3 /\ \A n \in 1..3 : image[i][n] \in 0..255

\* What thresholdImage gives for the frame at index idx is what the claim
\* says of entry idx: the frame itself at 0, one channel at 1, a conversion
\* to three channels at 2..6, and a mask of the size of the frame.
EntryApplies(frame, idx) ==
    LET t == Threshold(frame, idx, DefaultBounds)
    IN  /\ Len(t.im) = Len(frame)
        /\ Len(t.thresh) = Len(frame)
        /\ \A i \in Pixels(t.thresh) : t.thresh[i] \in {0, 255}
        /\ idx = 0 => t.im = frame
        /\ IF idx = 1
           THEN SingleChannel(t.im) /\ t.channels = <<>>
           ELSE ThreeChannels(t.im) /\ Len(t.channels) = 3
        /\ idx \in 2..6 => t.im # frame

\* C20. The colour spaces are the seven of the list BGR, GRAY, HSV, Lab,
\* Luv, YCrCb, YUV, in that order, in every state; BGR, at index 0, is the
\* only one without a conversion code; GRAY, at index 1, is the only one of
\* a single channel; the button names the one at colorSpaceIdx; and
\* thresholdImage can be applied at every index 0..6 to the frame held, as
\* it was in the last call made.
C20_CatalogClosed ==
    /\ COLOR_SPACES = Catalog
    /\ Len(COLOR_SPACES) = 7
    /\ DOMAIN CV_COLOR_CODES = {Catalog[k] : k \in 1..7}
    /\ \A idx \in 0..6 :
          /\ ListAt(COLOR_SPACES, idx) = Catalog[idx + 1]
          /\ (CV_COLOR_CODES[ListAt(COLOR_SPACES, idx)] = "None") <=> idx = 0
          /\ img # None => EntryApplies(img, idx)
    /\ colorSpaceIdx \in 0..6
    /\ ctrlWin = Catalog[colorSpaceIdx + 1]
    /\ lastThresh.called =>
          /\ lastThresh.colorSpaceIdx \in 0..6
          /\ imWin = Threshold(lastThresh.img, lastThresh.colorSpaceIdx,
                               DefaultBounds).im
          /\ IF lastThresh.colorSpaceIdx = 1
             THEN SingleChannel(imWin)
             ELSE ThreeChannels(imWin)

\* After four clicks forward a frame of two colours has been thresholded
\* under Luv, index 4, and the button says Luv.
C20_Witness ==
    /\ clickRun = [start |-> 0, dir |-> 1, len |-> 4]
    /\ colorSpaceIdx = 4
    /\ ctrlWin = "Luv"
    /\ lastThresh.called
    /\ lastThresh.colorSpaceIdx = 4
    /\ lastThresh.img[1] # lastThresh.img[2]
    /\ ThreeChannels(imWin)

\* The button names the colour space under which the images in the two
\* image windows were computed, and the windows show what that call gave.
ViewsAgree ==
    /\ ctrlWin = ListAt(COLOR_SPACES, lastThresh.colorSpaceIdx)
    /\ imWin = Threshold(lastThresh.img, lastThresh.colorSpaceIdx,
                         lastThresh.bounds).im
    /\ threshWin = Threshold(lastThresh.img, lastThresh.colorSpaceIdx,
                             lastThresh.bounds).thresh

\* C21, as claimed. In every mode, whenever images are on display, the
\* button names the colour space under which they were computed.
C21_ViewsAlwaysAgree ==
    lastThresh.called =>
        ctrlWin = ListAt(COLOR_SPACES, lastThresh.colorSpaceIdx)

\* C21, amended. The button always names the colour space at
\* colorSpaceIdx. In image mode the three windows agree whenever images are
\* on display. In video and camera mode they agree when the loop has just
\* thresholded; a click redraws the button at once and leaves the images
\* to the loop, so from a click until the loop thresholds, or for good if
\* "q" ends the loop first, the button names another colour space than the
\* one the images were computed under.
C21_ViewsAgreeAfterThreshold ==
    /\ ctrlWin = ListAt(COLOR_SPACES, colorSpaceIdx)
    /\ (lastThresh.called /\ (mode = "image" \/ pc = "read")) => ViewsAgree
    /\ ( /\ lastThresh.called
         /\ ctrlWin # ListAt(COLOR_SPACES, lastThresh.colorSpaceIdx) )
       => /\ mode # "image"
          /\ pc \in {"waitKey1", "done"}
          /\ mutatedSinceRead
          /\ lastEvent.kind = "mouse" \/ nEvents > 1

\* In video mode a frame was thresholded under BGR, the next was read, and
\* a left click made the button say GRAY: the images on display are still
\* those computed under BGR.
C21_Witness ==
    /\ mode = "video"
    /\ pc = "waitKey1"
    /\ cap = 2
    /\ lastThresh.called
    /\ lastThresh.colorSpaceIdx = 0
    /\ lastEvent = [kind |-> "mouse", name |-> "EVENT_LBUTTONDOWN", val |-> 0]
    /\ ctrlWin = "GRAY"
    /\ imWin = lastThresh.img

\* C22. Of the mouse events, a left press takes colorSpaceIdx one forward
\* and a right press one backward, round the seven, and any other leaves
\* colorSpaceIdx and the button as they were and thresholds nothing; no
\* mouse event changes a bound or a slider; and no slider move changes
\* colorSpaceIdx or the button.
C22_EventsClassified ==
    [][ EventStep =>
          /\ lastEvent'.kind = "mouse" =>
                /\ bounds' = bounds
                /\ trackbarPos' = trackbarPos
                /\ lastEvent'.name = "EVENT_LBUTTONDOWN" =>
                      colorSpaceIdx' = (colorSpaceIdx + 1) % 7
                /\ lastEvent'.name = "EVENT_RBUTTONDOWN" =>
                      colorSpaceIdx' = (colorSpaceIdx + 6) % 7
                /\ lastEvent'.name \notin
                        {"EVENT_LBUTTONDOWN", "EVENT_RBUTTONDOWN"} =>
                      /\ colorSpaceIdx' = colorSpaceIdx
                      /\ ctrlWin' = ctrlWin
                      /\ lastThresh' = lastThresh
                      /\ UNCHANGED <<threshWin, imWin>>
          /\ lastEvent'.kind = "trackbar" =>
                /\ colorSpaceIdx' = colorSpaceIdx
                /\ ctrlWin' = ctrlWin
      ]_vars

\* In image mode a left click led to GRAY, with the image thresholded under
\* it, and then the pointer moved over the Controls window: GRAY it still
\* is, on the button and in the last call of thresholdImage.
C22_Witness ==
    /\ mode = "image"
    /\ nEvents = 2
    /\ lastEvent = [kind |-> "mouse", name |-> "EVENT_MOUSEMOVE", val |-> 0]
    /\ clickRun = [start |-> 0, dir |-> 1, len |-> 1]
    /\ colorSpaceIdx = 1
    /\ ctrlWin = "GRAY"
    /\ lastThresh.colorSpaceIdx = 1
    /\ bounds = DefaultBounds

\* The event handled in this step is a slider move or a button press.
ChangingEvent ==
    \/ lastEvent'.kind = "trackbar"
    \/ lastEvent'.name \in {"EVENT_LBUTTONDOWN", "EVENT_RBUTTONDOWN"}

\* C23. In image mode start() reads the image once, thresholds it once and
\* waits in cv2.waitKey(0); it never opens a capture or reads a frame; the
\* image stays the one read; each slider move or button press is followed by
\* one thresholding of that image under the bounds and colour space as they
\* then are, and any other mouse event by none; handling an event leaves the
\* session waiting; and it ends, with nothing else changed, when
\* cv2.waitKey(0) returns a key, any key, after which nothing happens.
C23_ImageModeLifecycle ==
    /\ [](mode = "image" =>
            /\ pc \in {"start", "waitKey0", "done", "raised"}
            /\ cap = 0
            /\ ~mutatedSinceRead
            /\ pc \in {"waitKey0", "done"} =>
                  /\ img # None
                  /\ lastThresh.called
                  /\ lastThresh.img = img)
    /\ [][ mode = "image" =>
             /\ pc # "start" => img' = img
             /\ (pc = "start" /\ pc' # "raised") =>
                   /\ pc' = "waitKey0"
                   /\ lastThresh' = CallOf(img', 0, DefaultBounds)
             /\ EventStep =>
                   /\ pc = "waitKey0" /\ pc' = "waitKey0"
                   /\ lastThresh' = IF ChangingEvent
                                    THEN CallOf(img, colorSpaceIdx', bounds')
                                    ELSE lastThresh
             /\ (pc = "waitKey0" /\ ~EventStep) =>
                   /\ pc' = "done"
                   /\ lastThresh' = lastThresh
                   /\ UNCHANGED <<colorSpaceIdx, bounds, ctrlWin, threshWin,
                                  imWin>>
             /\ pc # "done"
         ]_vars

\* In image mode a right click and a slider move were handled, each
\* followed by a thresholding of the image read at start, and then a key
\* ended the session.
C23_Witness ==
    /\ mode = "image"
    /\ pc = "done"
    /\ nEvents = 2
    /\ clickRun = [start |-> 0, dir |-> -1, len |-> 1]
    /\ lastEvent = [kind |-> "trackbar", name |-> "Ch2 Low", val |-> 200]
    /\ lastThresh = CallOf(img, 6, <<0, 255, 0, 255, 200, 255>>)
    /\ cap = 0

----------------------------------------------------------------------------
(* The two files compared (SpecPair). *)

\* The two objects are at the same place of start() and hold the same image,
\* colour space index and bounds.
SameEngineState ==
    /\ other.pc = pc
    /\ other.colorSpaceIdx = colorSpaceIdx
    /\ other.bounds = bounds
    /\ other.img = img

\* The windows of the two programs show the same button text, converted
\* image and mask.
SameDisplays ==
    /\ other.ctrlWin = ctrlWin
    /\ other.imWin = imWin
    /\ other.threshWin = threshWin

\* C24. Run in the same mode on the same frames, slider moves, mouse events
\* and keys, ColorThreshUtil.py and colorthresh.py are at every step at the
\* same place of start() (they end on the same event) with the same colour
\* space index and bounds, and their windows show the same button text,
\* converted image and mask.
C24_SameAtEveryStep ==
    /\ SameEngineState
    /\ SameDisplays

----------------------------------------------------------------------------
(* get_video_pixel.py (SpecPixel). *)

\* The step is taken inside the capture loop.
InLoop == gvp.pc \in {"read", "waitKey"}

\* The step is the loop's capture.read() failing.
LoopReadFails == gvp.pc = "read" /\ gvp'.last.name = "failed"

\* The step is a left click on the Snapshot window.
LeftClick ==
    gvp'.last.kind = "mouse" /\ gvp'.last.name = "EVENT_LBUTTONDOWN"

\* The step is cv2.waitKey(1) returning key.
KeyStep(key) == gvp'.last.kind = "key" /\ gvp'.last.name = key

\* C25. In the capture loop of get_video_pixel, the snapshot changes only
\* when "t" is pressed, and then becomes the frame read in that iteration;
\* a left click reports the pixel of the snapshot at the place clicked; and
\* a failed read ends the loop as "q" does, without that iteration's frame
\* being handed to cv2.imshow.
C25_SnapshotLoop ==
    [][ InLoop =>
          /\ gvp'.snapshot # gvp.snapshot => KeyStep("t")
          /\ KeyStep("t") => gvp'.snapshot = gvp.frame
          /\ LeftClick =>
                /\ gvp'.snapshot = gvp.snapshot
                /\ gvp'.colorWin.fill = gvp.snapshot[gvp'.last.at]
          /\ LoopReadFails =>
                /\ gvp'.pc = "done"
                /\ gvp'.videoCalls = gvp.videoCalls ]_vars

====
